---- MODULE Spec2Model ----
(***************************************************************************)
(* Chat message fan-out and cache invalidation of the Web_Chat-App server. *)
(*                                                                         *)
(* The model follows server/routes.ts: the four chat endpoints             *)
(* (GET/POST/DELETE /api/chat, DELETE /api/chat/user), the Redis key       *)
(* 'chat_messages', the RabbitMQ notification queue and the WebSocket      *)
(* server whose clients receive the broadcasts.  Every handler is an async *)
(* function: it runs synchronously up to an await and may be interleaved   *)
(* with other handlers there, so each action below is one awaited call     *)
(* together with the synchronous code that follows it.                     *)
(***************************************************************************)
EXTENDS Integers, Sequences, FiniteSets, TLC

(* ------------------------------ bounds -------------------------------- *)
MaxReqs == 3          \* HTTP requests served in one behaviour
MaxUsers == 2         \* registered users (ids 1..MaxUsers)
MaxConns == 1         \* WebSocket connections accepted in one behaviour
MaxInFlight == 2      \* request slots: requests being served at one time
MaxTime == 40         \* last instant of the clock, in seconds
TickSeconds == 20     \* granularity of the clock, in seconds
MaxSockets == 2       \* WebSocket connections of the socket specification
MaxSocketReqs == 1    \* request slots of the socket specification
MaxFrames == 1        \* client frames the server receives in one behaviour
MaxAttempts == 2      \* failed connection attempts counted (then saturates)
MaxPollReqs == 1      \* requests served at a time while the page polls

(* ------------------------- program constants -------------------------- *)
CacheTtl == 30        \* redisClient.setEx(cacheKey, 30, ...)

NoUser == 0           \* req.user of a request without a session
Users == 1 .. MaxUsers
Callers == {NoUser} \cup Users

(* req.body: content is absent or a string (a sequence of characters);    *)
(* userId is a user id the sender put in the body, NoUser when it put none *)
Hello == <<"h", "i">>
Missing == [t |-> "undefined", v |-> <<>>, userId |-> NoUser]
Str(v) == [t |-> "string", v |-> v, userId |-> NoUser]
Claiming(v, u) == [t |-> "string", v |-> v, userId |-> u]
Contents == {Missing, Str(<<" ">>), Str(Hello)}
TimedCallers == {NoUser, 1}
TimedContents == {Missing, Str(<<>>), Str(Hello)}

VARIABLES
  chatMessages,       \* rows of the chat_messages table, in insertion order
  currentChatId,      \* next value of the id sequence
  now,                \* wall clock, seconds
  cache,              \* the Redis key 'chat_messages'
  channel,            \* rabbitmq.ts `channel`: "undefined" or "open"
  notificationQueue,  \* tasks published to 'notification_queue'
  chatMessagesTotal,  \* metrics counter chat_messages_total
  reqs,               \* the HTTP requests: handler position, locals, response
  last,               \* the request answered last, as it was when answered
  nreq,               \* number of requests received so far
  commits,            \* number of store mutations committed so far
  acked,              \* ids created / removed by mutations answered 2xx
  heard,              \* ids created / removed by mutations whose event was sent
  readyState,         \* readyState of every WebSocket of the server
  clients,            \* wss.clients
  inbox,              \* frames the server sent on every WebSocket
  nconn,              \* number of connections accepted so far
  activeConnections,  \* metrics gauge websocket_connections_active
  dead,               \* sockets whose peer is gone, 'close' not yet emitted
  received,           \* client frames handled by ws.on('message'), per socket
  client,             \* the dashboard page: its WebSocket, timer and flags
  accepting           \* whether the server accepts WebSocket connections

vars == << chatMessages, currentChatId, now, cache, channel, notificationQueue,
           chatMessagesTotal, reqs, last, nreq, commits, acked, heard, readyState,
           clients, inbox, nconn, activeConnections, dead, received, client,
           accepting >>

storeVars == << chatMessages, currentChatId >>
wsVars == << readyState, clients, inbox, nconn, activeConnections, dead,
            received >>
clientVars == << client, accepting >>
serverVars == << storeVars, now, cache, channel, notificationQueue,
                chatMessagesTotal, reqs, last, nreq, commits, acked, heard,
                wsVars >>

(* request slots (a finished request frees its slot) and server sockets *)
Reqs == DOMAIN reqs
Conns == DOMAIN readyState

(* ------------------------------- JSON --------------------------------- *)
(* A Date serialises to its ISO string; a parsed document keeps the string. *)
DateOf(n) == [k |-> "date", n |-> n]
toJSON(v) == IF v.k = "date" THEN [k |-> "iso", n |-> v.n] ELSE v
JSONstringify(list) ==
  [json |-> [i \in DOMAIN list |->
               [list[i] EXCEPT !.timestamp = toJSON(list[i].timestamp)]]]
JSONparse(text) == text.json
getTime(v) == v.n     \* new Date(x).getTime() of a Date or of an ISO string

NoMessage == [id |-> 0, userId |-> 0, content |-> <<>>, timestamp |-> DateOf(0)]
NoBody == [json |-> <<>>]

(* ----------------------------- the store ------------------------------ *)
Ids(list) == {list[i].id : i \in DOMAIN list}

(* db.select().from(chatMessages).orderBy(timestamp): any order of the rows *)
(* that is nondecreasing in timestamp (rows of equal timestamp are peers).  *)
getChatMessages(rows) ==
  { [i \in DOMAIN rows |-> rows[p[i]]] : p \in
      { q \in Permutations(DOMAIN rows) :
          \A i, j \in DOMAIN rows :
            i < j => getTime(rows[q[i]].timestamp) <= getTime(rows[q[j]].timestamp) } }

(* as createChatMessage, had the id been the number of rows plus one *)
createChatMessageCounted(insertMessage) ==
  [id |-> Len(chatMessages) + 1, userId |-> insertMessage.userId,
   content |-> insertMessage.content, timestamp |-> DateOf(now)]

(* insert ... returning: id from the sequence, timestamp defaultNow() *)
createChatMessage(insertMessage) ==
  [id |-> currentChatId, userId |-> insertMessage.userId,
   content |-> insertMessage.content, timestamp |-> DateOf(now)]

(* as clearChatMessages, had the delete spared the newest row *)
clearChatMessagesButNewest(rows) ==
  IF rows = <<>> THEN <<>> ELSE << rows[Len(rows)] >>
clearChatMessages(rows) == <<>>

deleteUserChatMessages(rows, userId) ==
  SelectSeq(rows, LAMBDA m : m.userId # userId)

(* ----------------------------- the cache ------------------------------ *)
NoEntry == [present |-> FALSE, value |-> NoBody, exp |-> 0, setAt |-> 0]

(* as redisHit, had the handler taken a cached empty list for a miss *)
redisHitNonEmpty ==
  cache.present /\ now < cache.exp /\ JSONparse(cache.value) # <<>>

(* redisClient.get: the value, unless the key is missing or has expired *)
redisHit == cache.present /\ now < cache.exp
redisGet == IF redisHit THEN cache.value ELSE NoBody

(* redisClient.setEx(key, ttl, value); setAt counts the store mutations    *)
(* that had committed when the entry was written                           *)
setEx(ttl, value) ==
  [present |-> TRUE, value |-> value, exp |-> now + ttl, setAt |-> commits]

(* ---------------------------- the requests ---------------------------- *)
NoEffect == [created |-> {}, removed |-> {}]
NoReq ==
  [id |-> 0, kind |-> "none", user |-> NoUser,
   content |-> Missing,
   pc |-> "idle", status |-> 0, messages |-> <<>>, message |-> NoMessage,
   body |-> NoBody, steps |-> <<>>, effect |-> NoEffect, commitNo |-> 0,
   acked |-> NoEffect, heard |-> NoEffect]

Mutations == {"POST", "DELETE", "DELETE_USER"}
IsSuccess(rec) == rec.pc = "done" /\ rec.status \in 200 .. 299
IsError(rec) == rec.pc = "done" /\ rec.status >= 400
Did(rec, step) == \E i \in DOMAIN rec.steps : rec.steps[i] = step

(* some socket was sent an event of request rec *)
Sent(rec) ==
  \E c \in Conns : \E i \in DOMAIN inbox[c] : inbox[c][i].by = rec.id

Join(a, b) ==
  [created |-> a.created \cup b.created, removed |-> a.removed \cup b.removed]

(* insertChatMessageSchema.parse: createInsertSchema(chatMessages) picks    *)
(* userId (integer, not null) and content (text, not null): a number and a  *)
(* string, of any length                                                    *)
insertChatMessageSchemaAccepts(data) ==
  /\ data.userId \in Users
  /\ data.content.t = "string"

(* req.isAuthenticated(): the request carries a session *)
isAuthenticatedAnyone(u) == TRUE
isAuthenticated(u) == u # NoUser

(* a request is served in the lowest free slot *)
Free == {r \in Reqs : reqs[r].pc = "idle"}
CanEnter == nreq < MaxReqs /\ Free # {}
Slot == CHOOSE r \in Free : \A q \in Free : r <= q

(* a list request remembers what its caller had been told when it was sent *)
NewReq(kind, u, c) ==
  [NoReq EXCEPT !.id = nreq + 1, !.kind = kind, !.user = u, !.content = c,
                !.acked = IF kind = "GET" THEN acked ELSE NoEffect,
                !.heard = IF kind = "GET" THEN heard ELSE NoEffect]

Step(rec, step) == [rec EXCEPT !.steps = Append(@, step)]

(* res.status(status).json(body): the handler is finished *)
Respond(rec, status, body) ==
  [rec EXCEPT !.pc = "done", !.status = status, !.body = body,
              !.steps = Append(@, "respond"), !.messages = <<>>]

(* wss.clients.forEach(client => if (client.readyState === OPEN) send(ev)) *)
(* client.send on a socket whose peer is gone queues the frame and returns: *)
(* the frame never arrives (ok = FALSE) and the loop goes on                 *)
send(c, ev) == [ev EXCEPT !.ok = c \notin dead]

(* as Broadcast, had client.send thrown on the socket whose peer is gone:   *)
(* the forEach ends there and the later clients are not sent the event      *)
BroadcastStopsAtFailure(ev) ==
  [c \in Conns |->
     IF /\ c \in clients /\ readyState[c] = "OPEN"
        /\ \A k \in clients : (k < c /\ readyState[k] = "OPEN") => k \notin dead
     THEN Append(inbox[c], send(c, ev))
     ELSE inbox[c]]

Broadcast(ev) ==
  [c \in Conns |->
     IF c \in clients /\ readyState[c] = "OPEN"
     THEN Append(inbox[c], send(c, ev))
     ELSE inbox[c]]

SomeOpen == \E c \in clients : readyState[c] = "OPEN"
Removed(before, after) ==
  [created |-> {}, removed |-> Ids(before) \ Ids(after)]

(* a mutation was broadcast and answered 2xx: what its caller and the      *)
(* connected clients now know to have happened                             *)
Notice(effect) ==
  /\ acked' = Join(acked, effect)
  /\ heard' = IF SomeOpen THEN Join(heard, effect) ELSE heard

(* a frame of the server; by and commitNo say which request sent it and    *)
(* which store mutation it reports                                         *)
Event(type, message, userId, by, commitNo) ==
  [type |-> type, message |-> message, userId |-> userId, by |-> by,
   commitNo |-> commitNo, ok |-> TRUE]

NoMessageJSON == [NoMessage EXCEPT !.timestamp = toJSON(@)]

(* the handler of slot r is suspended at its next await / has answered *)
Suspend(r, rec) == reqs' = [reqs EXCEPT ![r] = rec] /\ UNCHANGED last
Answer(r, rec) == reqs' = [reqs EXCEPT ![r] = NoReq] /\ last' = rec

(* ----------------------------- the client ------------------------------ *)
(* dashboard-page.tsx after mount: connectWebSocket() has created the       *)
(* WebSocket; no reconnect timer is pending.  sockets counts the sockets of *)
(* the page that are connecting or open, timers the pending timers          *)
ReconnectDelay == 3   \* setTimeout(connectWebSocket, 3000), in seconds
InitialClient ==
  [readyState |-> "CONNECTING", isConnected |-> FALSE, closeEvent |-> FALSE,
   sockets |-> 1, timers |-> 0, timer |-> 0, attempts |-> 0,
   invalidated |-> FALSE, mounted |-> TRUE,
   view |-> JSONstringify(<<>>), polling |-> FALSE]

(* ------------------------------- Init --------------------------------- *)
(* the server after start, with the given numbers of request slots and of *)
(* sockets it will accept                                                 *)
InitWith(slots, sockets) ==
  /\ chatMessages = <<>>
  /\ currentChatId = 1
  /\ now = 0
  /\ cache = NoEntry
  /\ channel = "undefined"
  /\ notificationQueue = <<>>
  /\ chatMessagesTotal = 0
  /\ reqs = [r \in 1 .. slots |-> NoReq]
  /\ last = NoReq
  /\ nreq = 0
  /\ commits = 0
  /\ acked = NoEffect
  /\ heard = NoEffect
  /\ readyState = [c \in 1 .. sockets |-> "CONNECTING"]
  /\ clients = {}
  /\ inbox = [c \in 1 .. sockets |-> <<>>]
  /\ nconn = 0
  /\ activeConnections = 0
  /\ dead = {}
  /\ received = [c \in 1 .. sockets |-> [ping |-> 0, other |-> 0]]
  /\ client = InitialClient
  /\ accepting = TRUE

Init == InitWith(MaxInFlight, MaxConns)
InitSockets == InitWith(MaxSocketReqs, MaxSockets)
InitPoll == InitWith(MaxPollReqs, MaxConns)

(* -------------------------- GET /api/chat ----------------------------- *)
(* the request arrives; the handler calls redisClient.get and awaits it *)
GetChatEnter ==
  /\ CanEnter
  /\ nreq' = nreq + 1
  /\ Suspend(Slot, [NewReq("GET", NoUser, NoReq.content) EXCEPT !.pc = "redisGet"])
  /\ UNCHANGED << storeVars, now, cache, channel, notificationQueue,
                  chatMessagesTotal, commits, acked, heard, wsVars,
                  clientVars >>

(* as GetChatCached, had a hit set the expiry of the entry again *)
GetChatCachedTouches(r) ==
  /\ reqs[r].kind = "GET" /\ reqs[r].pc = "redisGet"
  /\ IF redisHit
     THEN /\ Answer(r, Respond(Step(reqs[r], "hit"), 200,
                               JSONstringify(JSONparse(redisGet))))
          /\ cache' = [cache EXCEPT !.exp = now + CacheTtl]
     ELSE /\ Suspend(r, [Step(reqs[r], "miss")
                           EXCEPT !.pc = "getChatMessages"])
          /\ UNCHANGED cache
  /\ UNCHANGED << storeVars, now, channel, notificationQueue,
                  chatMessagesTotal, nreq, commits, acked, heard, wsVars,
                  clientVars >>

(* redisClient.get resolves: a hit is answered from the cache *)
GetChatCached(r) ==
  /\ reqs[r].kind = "GET" /\ reqs[r].pc = "redisGet"
  /\ IF redisHit
     THEN Answer(r, Respond(Step(reqs[r], "hit"), 200,
                            JSONstringify(JSONparse(redisGet))))
     ELSE Suspend(r, [Step(reqs[r], "miss") EXCEPT !.pc = "getChatMessages"])
  /\ UNCHANGED << storeVars, now, cache, channel, notificationQueue,
                  chatMessagesTotal, nreq, commits, acked, heard, wsVars,
                  clientVars >>

(* redisClient.get or redisClient.setEx rejects: the catch block answers 500 *)
GetChatCacheError(r) ==
  /\ reqs[r].kind = "GET" /\ reqs[r].pc \in {"redisGet", "setEx"}
  /\ Answer(r, Respond(Step(reqs[r], "cache_error"), 500, NoBody))
  /\ UNCHANGED << storeVars, now, cache, channel, notificationQueue,
                  chatMessagesTotal, nreq, commits, acked, heard, wsVars,
                  clientVars >>

(* storage.getChatMessages resolves; the handler calls redisClient.setEx *)
GetChatRead(r) ==
  /\ reqs[r].kind = "GET" /\ reqs[r].pc = "getChatMessages"
  /\ \E list \in getChatMessages(chatMessages) :
       Suspend(r, [Step(reqs[r], "read") EXCEPT !.pc = "setEx",
                                                 !.messages = list])
  /\ UNCHANGED << storeVars, now, cache, channel, notificationQueue,
                  chatMessagesTotal, nreq, commits, acked, heard, wsVars,
                  clientVars >>

(* storage.getChatMessages rejects: the catch block answers 500 *)
GetChatStoreError(r) ==
  /\ reqs[r].kind = "GET" /\ reqs[r].pc = "getChatMessages"
  /\ Answer(r, Respond(Step(reqs[r], "store_error"), 500, NoBody))
  /\ UNCHANGED << storeVars, now, cache, channel, notificationQueue,
                  chatMessagesTotal, nreq, commits, acked, heard, wsVars,
                  clientVars >>

(* redisClient.setEx resolves; res.json(messages) *)
GetChatSetEx(r) ==
  /\ reqs[r].kind = "GET" /\ reqs[r].pc = "setEx"
  /\ cache' = setEx(CacheTtl, JSONstringify(reqs[r].messages))
  /\ Answer(r, Respond(Step(reqs[r], "set"), 200,
                       JSONstringify(reqs[r].messages)))
  /\ UNCHANGED << storeVars, now, channel, notificationQueue,
                  chatMessagesTotal, nreq, commits, acked, heard, wsVars,
                  clientVars >>

(* -------------------------- POST /api/chat ---------------------------- *)
(* the request arrives: session check, schema parse, then the handler calls *)
(* storage.createChatMessage and awaits it                                  *)
PostChatEnter(u, c) ==
  /\ CanEnter
  /\ nreq' = nreq + 1
  /\ IF ~isAuthenticated(u)
     THEN /\ last' = Respond(NewReq("POST", u, c), 401, NoBody)
          /\ UNCHANGED reqs
     ELSE IF ~insertChatMessageSchemaAccepts([userId |-> u, content |-> c])
     THEN /\ last' = Respond(Step(NewReq("POST", u, c), "parse_error"),
                             400, NoBody)
          /\ UNCHANGED reqs
     ELSE Suspend(Slot, [NewReq("POST", u, c) EXCEPT !.pc = "createChatMessage"])
  /\ UNCHANGED << storeVars, now, cache, channel, notificationQueue,
                  chatMessagesTotal, commits, acked, heard, wsVars,
                  clientVars >>

(* as PostChatCreate, had the handler parsed req.body as it came *)
PostChatCreateFromBody(r) ==
  /\ reqs[r].kind = "POST" /\ reqs[r].pc = "createChatMessage"
  /\ LET message == createChatMessage(
                      [userId |-> IF reqs[r].content.userId = NoUser
                                  THEN reqs[r].user
                                  ELSE reqs[r].content.userId,
                       content |-> reqs[r].content.v])
     IN /\ chatMessages' = Append(chatMessages, message)
        /\ currentChatId' = currentChatId + 1
        /\ commits' = commits + 1
        /\ Suspend(r, [Step(reqs[r], "store") EXCEPT
                         !.pc = "del", !.message = message,
                         !.effect = [created |-> {message.id}, removed |-> {}],
                         !.commitNo = commits + 1])
  /\ UNCHANGED << now, cache, channel, notificationQueue, chatMessagesTotal,
                  nreq, acked, heard, wsVars, clientVars >>

(* storage.createChatMessage resolves; the handler calls redisClient.del *)
PostChatCreate(r) ==
  /\ reqs[r].kind = "POST" /\ reqs[r].pc = "createChatMessage"
  /\ LET message == createChatMessage([userId |-> reqs[r].user,
                                       content |-> reqs[r].content.v])
     IN /\ chatMessages' = Append(chatMessages, message)
        /\ currentChatId' = currentChatId + 1
        /\ commits' = commits + 1
        /\ Suspend(r, [Step(reqs[r], "store") EXCEPT
                         !.pc = "del", !.message = message,
                         !.effect = [created |-> {message.id}, removed |-> {}],
                         !.commitNo = commits + 1])
  /\ UNCHANGED << now, cache, channel, notificationQueue, chatMessagesTotal,
                  nreq, acked, heard, wsVars, clientVars >>

(* storage.createChatMessage rejects: the catch block answers 400 *)
PostChatStoreError(r) ==
  /\ reqs[r].kind = "POST" /\ reqs[r].pc = "createChatMessage"
  /\ Answer(r, Respond(Step(reqs[r], "store_error"), 400, NoBody))
  /\ UNCHANGED << storeVars, now, cache, channel, notificationQueue,
                  chatMessagesTotal, nreq, commits, acked, heard, wsVars,
                  clientVars >>

(* redisClient.del resolves; chatMessagesTotal.inc(); publishTask runs up to *)
(* its return: it throws without a channel, else sendToQueue                *)
PostChatDel(r) ==
  /\ reqs[r].kind = "POST" /\ reqs[r].pc = "del"
  /\ cache' = NoEntry
  /\ chatMessagesTotal' = chatMessagesTotal + 1
  /\ IF channel = "open"
     THEN /\ notificationQueue' =
               Append(notificationQueue,
                      [type |-> "new_message", userId |-> reqs[r].user,
                       messageId |-> reqs[r].message.id])
          /\ Suspend(r, [Step(Step(reqs[r], "invalidate"), "publish")
                           EXCEPT !.pc = "publishResolved"])
     ELSE /\ UNCHANGED notificationQueue
          /\ Suspend(r, [Step(reqs[r], "invalidate")
                           EXCEPT !.pc = "publishRejected"])
  /\ UNCHANGED << storeVars, now, channel, nreq, commits, acked, heard, wsVars,
                  clientVars >>

(* redisClient.del rejects: the catch block answers 400 *)
PostChatCacheError(r) ==
  /\ reqs[r].kind = "POST" /\ reqs[r].pc = "del"
  /\ Answer(r, Respond(Step(reqs[r], "cache_error"), 400, NoBody))
  /\ UNCHANGED << storeVars, now, cache, channel, notificationQueue,
                  chatMessagesTotal, nreq, commits, acked, heard, wsVars,
                  clientVars >>

(* await publishTask throws: the catch block answers 400 *)
PostChatPublishError(r) ==
  /\ reqs[r].kind = "POST" /\ reqs[r].pc = "publishRejected"
  /\ Answer(r, Respond(Step(reqs[r], "publish_error"), 400, NoBody))
  /\ UNCHANGED << storeVars, now, cache, channel, notificationQueue,
                  chatMessagesTotal, nreq, commits, acked, heard, wsVars,
                  clientVars >>

(* await publishTask returns: broadcast new_message, res.status(201) *)
PostChatBroadcast(r) ==
  /\ reqs[r].kind = "POST" /\ reqs[r].pc = "publishResolved"
  /\ inbox' = Broadcast(Event("new_message",
                              JSONparse(JSONstringify(<<reqs[r].message>>))[1],
                              reqs[r].user, reqs[r].id, reqs[r].commitNo))
  /\ Answer(r, Respond(Step(reqs[r], "broadcast"), 201, NoBody))
  /\ Notice(reqs[r].effect)
  /\ UNCHANGED << storeVars, now, cache, channel, notificationQueue,
                  chatMessagesTotal, nreq, commits, readyState, clients, nconn,
                  activeConnections,
                  dead, received, clientVars >>

(* ------------------------- DELETE /api/chat --------------------------- *)
ClearChatEnter(u) ==
  /\ CanEnter
  /\ nreq' = nreq + 1
  /\ IF ~isAuthenticated(u)
     THEN /\ last' = Respond(NewReq("DELETE", u, NoReq.content), 401, NoBody)
          /\ UNCHANGED reqs
     ELSE Suspend(Slot, [NewReq("DELETE", u, NoReq.content)
                           EXCEPT !.pc = "clearChatMessages"])
  /\ UNCHANGED << storeVars, now, cache, channel, notificationQueue,
                  chatMessagesTotal, commits, acked, heard, wsVars,
                  clientVars >>

(* as ClearChatStore, had client.send thrown on a socket whose peer is gone: *)
(* the catch block answers 500 after the store was cleared                   *)
ClearChatStoreSendThrows(r) ==
  /\ reqs[r].kind = "DELETE" /\ reqs[r].pc = "clearChatMessages"
  /\ chatMessages' = clearChatMessages(chatMessages)
  /\ commits' = commits + 1
  /\ inbox' = Broadcast(Event("chat_cleared", NoMessageJSON, NoUser,
                              reqs[r].id, commits + 1))
  /\ Answer(r, Respond([Step(Step(reqs[r], "store"), "broadcast")
                          EXCEPT !.effect = Removed(chatMessages, chatMessages'),
                                 !.commitNo = commits + 1],
                       IF \E c \in clients : readyState[c] = "OPEN" /\ c \in dead
                       THEN 500 ELSE 200, NoBody))
  /\ Notice(Removed(chatMessages, chatMessages'))
  /\ UNCHANGED << currentChatId, now, cache, channel, notificationQueue,
                  chatMessagesTotal, nreq, readyState, clients, nconn,
                  activeConnections, dead, received, clientVars >>

(* storage.clearChatMessages resolves; broadcast chat_cleared; 200 *)
ClearChatStore(r) ==
  /\ reqs[r].kind = "DELETE" /\ reqs[r].pc = "clearChatMessages"
  /\ chatMessages' = clearChatMessages(chatMessages)
  /\ commits' = commits + 1
  /\ inbox' = Broadcast(Event("chat_cleared", NoMessageJSON, NoUser,
                              reqs[r].id, commits + 1))
  /\ Answer(r, Respond([Step(Step(reqs[r], "store"), "broadcast")
                          EXCEPT !.effect = Removed(chatMessages, chatMessages'),
                                 !.commitNo = commits + 1],
                       200, NoBody))
  /\ Notice(Removed(chatMessages, chatMessages'))
  /\ UNCHANGED << currentChatId, now, cache, channel, notificationQueue,
                  chatMessagesTotal, nreq, readyState, clients, nconn,
                  activeConnections,
                  dead, received, clientVars >>

(* as ClearChatStoreError, had the rejection been caught around the store *)
(* call alone: the handler goes on to broadcast and answers 200            *)
ClearChatStoreErrorSwallowed(r) ==
  /\ reqs[r].kind = "DELETE" /\ reqs[r].pc = "clearChatMessages"
  /\ inbox' = Broadcast(Event("chat_cleared", NoMessageJSON, NoUser,
                              reqs[r].id, 0))
  /\ Answer(r, Respond(Step(Step(reqs[r], "store_error"), "broadcast"),
                       200, NoBody))
  /\ UNCHANGED << storeVars, now, cache, channel, notificationQueue,
                  chatMessagesTotal, nreq, commits, acked, heard, readyState,
                  clients, nconn, activeConnections,
                  dead, received, clientVars >>

(* storage.clearChatMessages rejects: the catch block answers 500 *)
ClearChatStoreError(r) ==
  /\ reqs[r].kind = "DELETE" /\ reqs[r].pc = "clearChatMessages"
  /\ Answer(r, Respond(Step(reqs[r], "store_error"), 500, NoBody))
  /\ UNCHANGED << storeVars, now, cache, channel, notificationQueue,
                  chatMessagesTotal, nreq, commits, acked, heard, wsVars,
                  clientVars >>

(* ----------------------- DELETE /api/chat/user ------------------------ *)
DeleteUserEnter(u) ==
  /\ CanEnter
  /\ nreq' = nreq + 1
  /\ IF ~isAuthenticated(u)
     THEN /\ last' = Respond(NewReq("DELETE_USER", u, NoReq.content), 401,
                             NoBody)
          /\ UNCHANGED reqs
     ELSE Suspend(Slot, [NewReq("DELETE_USER", u, NoReq.content)
                           EXCEPT !.pc = "deleteUserChatMessages"])
  /\ UNCHANGED << storeVars, now, cache, channel, notificationQueue,
                  chatMessagesTotal, commits, acked, heard, wsVars,
                  clientVars >>

(* as DeleteUserStore, had the handler sent the event of DELETE /api/chat *)
DeleteUserStoreSendsCleared(r) ==
  /\ reqs[r].kind = "DELETE_USER" /\ reqs[r].pc = "deleteUserChatMessages"
  /\ chatMessages' = deleteUserChatMessages(chatMessages, reqs[r].user)
  /\ commits' = commits + 1
  /\ inbox' = Broadcast(Event("chat_cleared", NoMessageJSON, NoUser,
                              reqs[r].id, commits + 1))
  /\ Answer(r, Respond([Step(Step(reqs[r], "store"), "broadcast")
                          EXCEPT !.effect = Removed(chatMessages, chatMessages'),
                                 !.commitNo = commits + 1],
                       200, NoBody))
  /\ Notice(Removed(chatMessages, chatMessages'))
  /\ UNCHANGED << currentChatId, now, cache, channel, notificationQueue,
                  chatMessagesTotal, nreq, readyState, clients, nconn,
                  activeConnections,
                  dead, received, clientVars >>

(* storage.deleteUserChatMessages resolves; broadcast; 200 *)
DeleteUserStore(r) ==
  /\ reqs[r].kind = "DELETE_USER" /\ reqs[r].pc = "deleteUserChatMessages"
  /\ chatMessages' = deleteUserChatMessages(chatMessages, reqs[r].user)
  /\ commits' = commits + 1
  /\ inbox' = Broadcast(Event("user_messages_deleted", NoMessageJSON,
                              reqs[r].user, reqs[r].id, commits + 1))
  /\ Answer(r, Respond([Step(Step(reqs[r], "store"), "broadcast")
                          EXCEPT !.effect = Removed(chatMessages, chatMessages'),
                                 !.commitNo = commits + 1],
                       200, NoBody))
  /\ Notice(Removed(chatMessages, chatMessages'))
  /\ UNCHANGED << currentChatId, now, cache, channel, notificationQueue,
                  chatMessagesTotal, nreq, readyState, clients, nconn,
                  activeConnections,
                  dead, received, clientVars >>

(* storage.deleteUserChatMessages rejects: the catch block answers 500 *)
DeleteUserStoreError(r) ==
  /\ reqs[r].kind = "DELETE_USER" /\ reqs[r].pc = "deleteUserChatMessages"
  /\ Answer(r, Respond(Step(reqs[r], "store_error"), 500, NoBody))
  /\ UNCHANGED << storeVars, now, cache, channel, notificationQueue,
                  chatMessagesTotal, nreq, commits, acked, heard, wsVars,
                  clientVars >>

(* --------------------------- WebSocket server ------------------------- *)
(* wss.on('connection'): the socket is open and in wss.clients *)
Connection ==
  /\ nconn + 1 \in Conns
  /\ nconn' = nconn + 1
  /\ readyState' = [readyState EXCEPT ![nconn + 1] = "OPEN"]
  /\ clients' = clients \cup {nconn + 1}
  /\ activeConnections' = activeConnections + 1
  /\ inbox' = [inbox EXCEPT ![nconn + 1] =
                 Append(@, Event("connected", NoMessageJSON, NoUser, 0, 0))]
  /\ UNCHANGED << storeVars, now, cache, channel, notificationQueue,
                  chatMessagesTotal, reqs, last, nreq, commits, acked, heard,
                  dead, received, clientVars >>

(* a close frame was sent or received: the closing handshake is running *)
Closing(c) ==
  /\ readyState[c] = "OPEN"
  /\ readyState' = [readyState EXCEPT ![c] = "CLOSING"]
  /\ UNCHANGED << storeVars, now, cache, channel, notificationQueue,
                  chatMessagesTotal, reqs, last, nreq, commits, acked, heard,
                  clients, inbox, nconn, activeConnections,
                  dead, received, clientVars >>

(* as Close, had the gauge been decremented after a clean close only *)
CloseCleanDecrements(c) ==
  /\ readyState[c] \in {"OPEN", "CLOSING"}
  /\ readyState' = [readyState EXCEPT ![c] = "CLOSED"]
  /\ clients' = clients \ {c}
  /\ activeConnections' = IF c \in dead THEN activeConnections
                          ELSE activeConnections - 1
  /\ dead' = dead \ {c}
  /\ UNCHANGED << storeVars, now, cache, channel, notificationQueue,
                  chatMessagesTotal, reqs, last, nreq, commits, acked, heard,
                  inbox, nconn, received, clientVars >>

(* the socket closed: 'close' is emitted, wss drops the client, ws.on('close') *)
Close(c) ==
  /\ readyState[c] \in {"OPEN", "CLOSING"}
  /\ readyState' = [readyState EXCEPT ![c] = "CLOSED"]
  /\ clients' = clients \ {c}
  /\ activeConnections' = activeConnections - 1
  /\ dead' = dead \ {c}
  /\ UNCHANGED << storeVars, now, cache, channel, notificationQueue,
                  chatMessagesTotal, reqs, last, nreq, commits, acked, heard,
                  inbox, nconn, received, clientVars >>

(* the peer of an open socket is gone (cable pulled, browser killed): the   *)
(* socket stays OPEN and registered until the failure is noticed            *)
Die(c) ==
  /\ readyState[c] = "OPEN" /\ c \notin dead
  /\ dead' = dead \cup {c}
  /\ UNCHANGED << storeVars, now, cache, channel, notificationQueue,
                  chatMessagesTotal, reqs, last, nreq, commits, acked, heard,
                  readyState, clients, inbox, nconn, activeConnections,
                  received, clientVars >>

(* frames a client sends: the text of a JSON object with a type, of the JSON *)
(* value null, or no JSON at all                                             *)
PingFrame == [syntax |-> "object", type |-> "ping"]
Frames ==
  {PingFrame, [syntax |-> "object", type |-> "chat"],
   [syntax |-> "object", type |-> "undefined"],
   [syntax |-> "null", type |-> "undefined"],
   [syntax |-> "invalid", type |-> "undefined"]}

(* JSON.parse(message.toString()) throws on text that is no JSON; data.type *)
(* throws on null                                                           *)
Throws(frame) == frame.syntax \in {"invalid", "null"}
(* as AnswersPong, had the handler answered every frame that parses *)
AnswersPongAlways(frame) == ~Throws(frame)
AnswersPong(frame) == ~Throws(frame) /\ frame.type = "ping"

FramesReceived ==
  LET RECURSIVE Sum(_)
      Sum(S) == IF S = {} THEN 0
                ELSE LET c == CHOOSE x \in S : TRUE
                     IN received[c].ping + received[c].other + Sum(S \ {c})
  IN Sum(Conns)

(* ws.on('message'): a ping is answered with a pong on the same socket; the *)
(* catch block logs everything that throws                                  *)
Message(c, frame) ==
  /\ readyState[c] = "OPEN" /\ c \notin dead
  /\ FramesReceived < MaxFrames
  /\ received' = [received EXCEPT ![c] =
                    IF frame = PingFrame THEN [@ EXCEPT !.ping = @ + 1]
                    ELSE [@ EXCEPT !.other = @ + 1]]
  /\ inbox' = IF AnswersPong(frame)
              THEN [inbox EXCEPT ![c] =
                      Append(@, send(c, Event("pong", NoMessageJSON, NoUser,
                                              0, 0)))]
              ELSE inbox
  /\ UNCHANGED << storeVars, now, cache, channel, notificationQueue,
                  chatMessagesTotal, reqs, last, nreq, commits, acked, heard,
                  readyState, clients, nconn, activeConnections, dead,
                  clientVars >>

(* ---------------------------- environment ----------------------------- *)
Tick ==
  /\ now + TickSeconds <= MaxTime
  /\ now' = now + TickSeconds
  /\ UNCHANGED << storeVars, cache, channel, notificationQueue,
                  chatMessagesTotal, reqs, last, nreq, commits, acked, heard,
                  wsVars, clientVars >>

(* connectRabbitMQ: amqp.connect and createChannel succeeded *)
connectRabbitMQ ==
  /\ channel = "undefined"
  /\ channel' = "open"
  /\ UNCHANGED << storeVars, now, cache, notificationQueue, chatMessagesTotal,
                  reqs, last, nreq, commits, acked, heard, wsVars,
                  clientVars >>

(* the list requests *)
Reads ==
  \/ GetChatEnter
  \/ \E r \in Reqs : GetChatCached(r)
  \/ \E r \in Reqs : GetChatCacheError(r)
  \/ \E r \in Reqs : GetChatRead(r)
  \/ \E r \in Reqs : GetChatStoreError(r)
  \/ \E r \in Reqs : GetChatSetEx(r)

(* the mutation requests, their callers and bodies drawn from the given sets *)
Writes(callers, contents) ==
  \/ \E u \in callers, c \in contents : PostChatEnter(u, c)
  \/ \E r \in Reqs : PostChatCreate(r)
  \/ \E r \in Reqs : PostChatStoreError(r)
  \/ \E r \in Reqs : PostChatDel(r)
  \/ \E r \in Reqs : PostChatCacheError(r)
  \/ \E r \in Reqs : PostChatPublishError(r)
  \/ \E r \in Reqs : PostChatBroadcast(r)
  \/ \E u \in callers : ClearChatEnter(u)
  \/ \E r \in Reqs : ClearChatStore(r)
  \/ \E r \in Reqs : ClearChatStoreError(r)
  \/ \E u \in callers : DeleteUserEnter(u)
  \/ \E r \in Reqs : DeleteUserStore(r)
  \/ \E r \in Reqs : DeleteUserStoreError(r)

Serve(callers, contents) == Reads \/ Writes(callers, contents)

Sockets ==
  \/ Connection
  \/ \E c \in Conns : Closing(c)
  \/ \E c \in Conns : Close(c)

(* the gateway at one instant: every caller, no time passes *)
Next == Serve(Callers, Contents) \/ Sockets \/ connectRabbitMQ

Spec == Init /\ [][Next]_vars

(* the authors of the store: every user posts, with and without a userId *)
(* of its own choice in the body, clears and deletes its own             *)
AuthorContents ==
  {Str(Hello)} \cup {Claiming(Hello, u) : u \in Users}
NextAuthors == Writes(Users, AuthorContents) \/ connectRabbitMQ

SpecAuthors == Init /\ [][NextAuthors]_vars

(* the push channels: two sockets, the mutations of one caller, peers that *)
(* vanish and client frames                                                *)
SocketCallers == {1}
SocketContents == {Str(Hello)}
NextSockets ==
  \/ Writes(SocketCallers, SocketContents)
  \/ Sockets
  \/ \E c \in Conns : Die(c)
  \/ \E c \in Conns, frame \in Frames : Message(c, frame)
  \/ connectRabbitMQ

SpecSockets == InitSockets /\ [][NextSockets]_vars

(* ------------------------- the client's socket ------------------------ *)
Min(a, b) == IF a < b THEN a ELSE b

(* the server starts or stops accepting WebSocket connections *)
ServerUp ==
  /\ ~accepting /\ accepting' = TRUE
  /\ UNCHANGED << client, serverVars >>

ServerDown ==
  /\ accepting /\ accepting' = FALSE
  /\ UNCHANGED << client, serverVars >>

(* ws.onopen: the handshake succeeded *)
ClientOnOpen ==
  /\ client.readyState = "CONNECTING" /\ accepting
  /\ client' = [client EXCEPT !.readyState = "OPEN", !.isConnected = TRUE]
  /\ UNCHANGED << accepting, serverVars >>

(* ws.onerror: the handshake failed; the browser closes the socket and the  *)
(* close event follows                                                      *)
(* as ClientOnError, had onerror scheduled a reconnect as well *)
ClientOnErrorReconnects ==
  /\ client.readyState = "CONNECTING" /\ ~accepting
  /\ client' = [client EXCEPT !.readyState = "CLOSED", !.isConnected = FALSE,
                              !.closeEvent = TRUE, !.sockets = @ - 1,
                              !.timers = @ + 1, !.timer = ReconnectDelay,
                              !.attempts = Min(@ + 1, MaxAttempts)]
  /\ UNCHANGED << accepting, serverVars >>

ClientOnError ==
  /\ client.readyState = "CONNECTING" /\ ~accepting
  /\ client' = [client EXCEPT !.readyState = "CLOSED", !.isConnected = FALSE,
                              !.closeEvent = TRUE, !.sockets = @ - 1,
                              !.attempts = Min(@ + 1, MaxAttempts)]
  /\ UNCHANGED << accepting, serverVars >>

(* the open channel drops: the close event is queued *)
ClientDrop ==
  /\ client.readyState = "OPEN"
  /\ client' = [client EXCEPT !.readyState = "CLOSED", !.closeEvent = TRUE,
                              !.sockets = @ - 1]
  /\ UNCHANGED << accepting, serverVars >>

(* as ClientOnClose, had the page given up after MaxAttempts failed attempts *)
ClientOnCloseCapped ==
  /\ client.closeEvent
  /\ client' = [client EXCEPT !.closeEvent = FALSE, !.isConnected = FALSE,
                              !.timers = IF client.attempts < MaxAttempts
                                         THEN @ + 1 ELSE @,
                              !.timer = IF client.attempts < MaxAttempts
                                        THEN ReconnectDelay ELSE 0]
  /\ UNCHANGED << accepting, serverVars >>

(* ws.onclose: setIsConnected(false); setTimeout(connectWebSocket, 3000) *)
ClientOnClose ==
  /\ client.closeEvent
  /\ client' = [client EXCEPT !.closeEvent = FALSE, !.isConnected = FALSE,
                              !.timers = @ + 1, !.timer = ReconnectDelay]
  /\ UNCHANGED << accepting, serverVars >>

(* one second of the reconnect delay passes *)
ClientTimerTick ==
  /\ client.timers > 0 /\ client.timer > 0
  /\ client' = [client EXCEPT !.timer = @ - 1]
  /\ UNCHANGED << accepting, serverVars >>

(* the timer fires: connectWebSocket() creates a new WebSocket *)
ClientTimerFire ==
  /\ client.timers > 0 /\ client.timer = 0
  /\ client' = [client EXCEPT !.timers = @ - 1, !.sockets = @ + 1,
                              !.readyState = "CONNECTING"]
  /\ UNCHANGED << accepting, serverVars >>

(* the timer fires and new WebSocket(wsUrl) throws: the catch block sets    *)
(* isConnected false and schedules the next attempt                         *)
ClientConstructorThrows ==
  /\ client.timers > 0 /\ client.timer = 0
  /\ client' = [client EXCEPT !.isConnected = FALSE, !.timer = ReconnectDelay,
                              !.attempts = Min(@ + 1, MaxAttempts)]
  /\ UNCHANGED << accepting, serverVars >>

(* the page is unmounted: the effect's cleanup closes wsRef.current; the    *)
(* handlers of that socket stay in place                                    *)
ClientUnmount ==
  /\ client.mounted
  /\ client' = IF client.readyState \in {"CONNECTING", "OPEN"}
               THEN [client EXCEPT !.mounted = FALSE, !.readyState = "CLOSED",
                                   !.closeEvent = TRUE, !.sockets = @ - 1]
               ELSE [client EXCEPT !.mounted = FALSE]
  /\ UNCHANGED << accepting, serverVars >>

(* ws.onmessage: the three chat events invalidate the /api/chat query *)
EventTypes ==
  {"connected", "pong", "new_message", "chat_cleared", "user_messages_deleted"}
(* as Invalidates, had the switch named the new_message case alone *)
InvalidatesNewMessage(type) == type = "new_message"
Invalidates(type) ==
  type \in {"new_message", "chat_cleared", "user_messages_deleted"}
ClientOnMessage(type) ==
  /\ client.readyState = "OPEN"
  /\ client' = [client EXCEPT !.invalidated = @ \/ Invalidates(type)]
  /\ UNCHANGED << accepting, serverVars >>

(* the invalidated query is fetched again *)
ClientRefetch ==
  /\ client.invalidated
  /\ client' = [client EXCEPT !.invalidated = FALSE]
  /\ UNCHANGED << accepting, serverVars >>

ClientSteps ==
  \/ ClientOnOpen
  \/ ClientOnError
  \/ ClientOnClose
  \/ ClientTimerTick
  \/ ClientTimerFire

NextClient ==
  \/ ClientSteps
  \/ ClientDrop
  \/ ClientUnmount
  \/ \E type \in EventTypes : ClientOnMessage(type)
  \/ ClientRefetch
  \/ ServerUp
  \/ ServerDown

(* the list query of the page: data is [] until a fetch succeeds; with    *)
(* refetchInterval the query is fetched again and again, one fetch at a   *)
(* time                                                                   *)
PollId == MaxReqs + 1
ClientPoll ==
  /\ ~client.polling /\ Free # {}
  /\ Suspend(Slot, [NewReq("GET", NoUser, NoReq.content)
                      EXCEPT !.id = PollId, !.pc = "redisGet"])
  /\ client' = [client EXCEPT !.polling = TRUE]
  /\ UNCHANGED << storeVars, now, cache, channel, notificationQueue,
                  chatMessagesTotal, nreq, commits, acked, heard, wsVars,
                  accepting >>

(* the fetch settles: a 200 replaces the data of the query; a response    *)
(* that did not arrive leaves the data as it was                          *)
ClientPollSettled ==
  /\ client.polling /\ \A r \in Reqs : reqs[r].id # PollId
  /\ client' = [client EXCEPT
                  !.polling = FALSE,
                  !.view = IF last.id = PollId /\ last.status = 200
                           THEN last.body ELSE @]
  /\ UNCHANGED << accepting, serverVars >>

(* the steps of the handlers of running requests that go well *)
ReadsProceed ==
  \/ \E r \in Reqs : GetChatCached(r)
  \/ \E r \in Reqs : GetChatRead(r)
  \/ \E r \in Reqs : GetChatSetEx(r)

WritesEnter(callers, contents) ==
  \/ \E u \in callers, c \in contents : PostChatEnter(u, c)
  \/ \E u \in callers : ClearChatEnter(u)
  \/ \E u \in callers : DeleteUserEnter(u)

WritesProceed ==
  \/ \E r \in Reqs : PostChatCreate(r)
  \/ \E r \in Reqs : PostChatStoreError(r)
  \/ \E r \in Reqs : PostChatDel(r)
  \/ \E r \in Reqs : PostChatCacheError(r)
  \/ \E r \in Reqs : PostChatPublishError(r)
  \/ \E r \in Reqs : PostChatBroadcast(r)
  \/ \E r \in Reqs : ClearChatStore(r)
  \/ \E r \in Reqs : ClearChatStoreError(r)
  \/ \E r \in Reqs : DeleteUserStore(r)
  \/ \E r \in Reqs : DeleteUserStoreError(r)

(* time passes after the last mutation: from MaxTime on the clock is kept *)
(* and the expiry of the entry is moved towards it instead                *)
Quiet == \A r \in Reqs : reqs[r].kind \notin Mutations
Elapse ==
  /\ now + TickSeconds > MaxTime /\ Quiet /\ redisHit
  /\ cache' = [cache EXCEPT !.exp = @ - TickSeconds]
  /\ UNCHANGED << storeVars, now, channel, notificationQueue,
                  chatMessagesTotal, reqs, last, nreq, commits, acked, heard,
                  wsVars, clientVars >>

(* a page that polls while no socket is connected: one user mutates the   *)
(* list until MaxTime, requests are served one at a time and time passes  *)
PollCallers == {1}
PollContents == {Str(Hello)}
NextPoll ==
  \/ now + TickSeconds <= MaxTime /\ WritesEnter(PollCallers, PollContents)
  \/ WritesProceed
  \/ ReadsProceed
  \/ ClientPoll
  \/ ClientPollSettled
  \/ connectRabbitMQ
  \/ Tick
  \/ Elapse

SpecPoll ==
  /\ InitPoll /\ [][NextPoll]_vars
  /\ WF_vars(WritesProceed) /\ WF_vars(ReadsProceed)
  /\ WF_vars(ClientPoll) /\ WF_vars(ClientPollSettled)
  /\ WF_vars(Tick) /\ WF_vars(Elapse)

(* the page's socket in every environment: the constructor may throw too *)
NextAgent == NextClient \/ ClientConstructorThrows

SpecAgent == Init /\ [][NextAgent]_vars

(* the browser's event loop runs every handler and timer that is due *)
SpecClient ==
  /\ Init /\ [][NextClient]_vars
  /\ WF_vars(ClientOnOpen) /\ WF_vars(ClientOnError) /\ WF_vars(ClientOnClose)
  /\ WF_vars(ClientTimerTick) /\ WF_vars(ClientTimerFire)

(* the requests over time: the cache entry expires; no socket is connected *)
NextTimed ==
  Serve(TimedCallers, TimedContents) \/ connectRabbitMQ \/ Tick

SpecTimed == Init /\ [][NextTimed]_vars

(* ============================== claims ================================ *)
(* the requests the state still knows: the suspended ones and the one     *)
(* answered last                                                          *)
Known == {reqs[r] : r \in Reqs} \cup {last}
KnownMutations == {rec \in Known : rec.kind \in Mutations}

(* what a request did to the shared state so far *)
Wrote(rec) == Did(rec, "store")
Invalidated(rec) == Did(rec, "invalidate")
Published(rec) == Did(rec, "publish")
Broadcasted(rec) == Did(rec, "broadcast")
NoEffects(rec) ==
  ~Wrote(rec) /\ ~Invalidated(rec) /\ ~Published(rec) /\ ~Broadcasted(rec)
    /\ ~Sent(rec)

(* content.trim() is empty, or there is no content *)
IsBlank(c) == c.t = "undefined" \/ \A i \in DOMAIN c.v : c.v[i] = " "

BodyIds(rec) == Ids(JSONparse(rec.body))

(* C1: after a successful chat mutation the cache entry of the message    *)
(* list is absent until a cache set that follows the mutation's commit.   *)
C1_CacheAbsentAfterMutation ==
  \A rec \in KnownMutations :
    (IsSuccess(rec) /\ cache.setAt < rec.commitNo) => ~redisHit

(* C2: a list request sent after the success response of a mutation       *)
(* returns a list with the effect of that mutation: no message the        *)
(* mutation removed, and every message it created that is still stored.   *)
C2_ReadYourWrites ==
  (last.kind = "GET" /\ IsSuccess(last)) =>
    /\ BodyIds(last) \cap last.acked.removed = {}
    /\ (last.acked.created \cap Ids(chatMessages)) \subseteq BodyIds(last)

(* C3: every chat mutation does store write, cache invalidation,          *)
(* broadcast, response in this order with none skipped; no event reaches  *)
(* a client before the cache was invalidated.                             *)
MutationSteps == <<"store", "invalidate", "broadcast">>
CoreSteps(rec) ==
  SelectSeq(rec.steps, LAMBDA x : x \in {"store", "invalidate", "broadcast"})
C3_MutationSequence ==
  \A rec \in KnownMutations :
    /\ \E n \in 0 .. 3 : CoreSteps(rec) = SubSeq(MutationSteps, 1, n)
    /\ IsSuccess(rec) => CoreSteps(rec) = MutationSteps
    /\ Sent(rec) => Invalidated(rec)

(* C4: a list request sent after the event of a mutation was received     *)
(* returns a list with the effect of that mutation.                       *)
C4_RefetchAfterEvent ==
  (last.kind = "GET" /\ IsSuccess(last)) =>
    /\ BodyIds(last) \cap last.heard.removed = {}
    /\ (last.heard.created \cap Ids(chatMessages)) \subseteq BodyIds(last)

(* C5: a chat mutation request without a session is answered 401 at once  *)
(* and changes nothing: no store write, no cache delete, no task, no      *)
(* event on any connection.                                               *)
C5_UnauthenticatedRejected ==
  \A rec \in KnownMutations :
    rec.user = NoUser =>
      /\ rec.pc = "done" /\ rec.status = 401
      /\ NoEffects(rec)

C5_Witness ==
  /\ last.kind \in Mutations /\ last.user = NoUser /\ last.status = 401
  /\ chatMessages # <<>> /\ redisHit /\ SomeOpen /\ channel = "open"

(* C6: a post by an authenticated caller whose content is empty,          *)
(* whitespace-only or missing is answered 400 and changes nothing.        *)
C6_BlankContentRejected ==
  \A rec \in Known :
    (rec.kind = "POST" /\ rec.user # NoUser /\ IsBlank(rec.content)) =>
      /\ rec.pc = "done" => rec.status = 400
      /\ NoEffects(rec)

(* C7: a mutation answered with an error status changed nothing: no store *)
(* write, no cache delete, no event on any connection.                    *)
C7_FailedMutationNoEffect ==
  \A rec \in KnownMutations :
    IsError(rec) =>
      ~Wrote(rec) /\ ~Invalidated(rec) /\ ~Broadcasted(rec) /\ ~Sent(rec)

(* C8: a store failure during a chat mutation is answered with a 5xx      *)
(* status.                                                                *)
C8_StoreFailureIs5xx ==
  \A rec \in KnownMutations :
    (rec.pc = "done" /\ Did(rec, "store_error")) => rec.status >= 500

(* C9: when the store write of a mutation fails, the request invalidates  *)
(* no cache entry and sends no event to any connection.                   *)
C9_StoreFailureNoFanout ==
  \A rec \in KnownMutations :
    Did(rec, "store_error") =>
      ~Invalidated(rec) /\ ~Broadcasted(rec) /\ ~Sent(rec)

C9_Witness ==
  /\ last.kind \in Mutations /\ Did(last, "store_error")
  /\ chatMessages # <<>> /\ redisHit /\ SomeOpen

(* C10: a list request whose cache get or cache set fails is still        *)
(* answered 200 with the list read from the store.                        *)
C10_CacheFailureDegrades ==
  (last.kind = "GET" /\ Did(last, "cache_error")) => last.status = 200

(* the frames of request rec whose send found the peer gone *)
FailedSend(rec) ==
  \E c \in Conns : \E i \in DOMAIN inbox[c] :
    inbox[c][i].by = rec.id /\ ~inbox[c][i].ok

(* this step is the broadcast of a mutation (it is answered in the same step) *)
BroadcastStep == last'.id # last.id /\ Broadcasted(last')

C12_FailedSendNotSurfaced ==
  \A rec \in KnownMutations :
    (Wrote(rec) /\ FailedSend(rec)) =>
      /\ rec.pc = "done"
      /\ rec.status = IF rec.kind = "POST" THEN 201 ELSE 200

C12_Witness ==
  /\ last.kind \in Mutations /\ Wrote(last) /\ FailedSend(last)
  /\ IsSuccess(last)

(* C13: a list is in nondecreasing timestamp order, and messages of equal *)
(* timestamp are in ascending id order.                                   *)
Ordered(list) ==
  \A i, j \in DOMAIN list :
    i < j =>
      \/ getTime(list[i].timestamp) < getTime(list[j].timestamp)
      \/ /\ getTime(list[i].timestamp) = getTime(list[j].timestamp)
         /\ list[i].id < list[j].id
C13_ListOrdered ==
  (last.kind = "GET" /\ IsSuccess(last)) => Ordered(JSONparse(last.body))

(* C14: deleteUserChatMessages(a) removes exactly the messages of a, is   *)
(* idempotent, and a list after it is the list before it without the      *)
(* messages of a, in the same order.                                      *)
C14_DeleteOwnExact ==
  \A a \in Users :
    LET after == deleteUserChatMessages(chatMessages, a)
    IN /\ \A i \in DOMAIN after : after[i].userId # a
       /\ Ids(after) = {chatMessages[i].id : i \in
                          {k \in DOMAIN chatMessages : chatMessages[k].userId # a}}
       /\ deleteUserChatMessages(after, a) = after
       /\ \A before \in getChatMessages(chatMessages) :
            \A list \in getChatMessages(after) :
              list = SelectSeq(before, LAMBDA m : m.userId # a)

(* C15: after clearChatMessages the list is empty whatever the store held, *)
(* and clearing a cleared store leaves it as it is.                        *)
C15_ClearEmpties ==
  /\ getChatMessages(clearChatMessages(chatMessages)) = {<<>>}
  /\ clearChatMessages(clearChatMessages(chatMessages))
       = clearChatMessages(chatMessages)
  /\ \A rec \in KnownMutations :
       (rec.kind = "DELETE" /\ IsSuccess(rec) /\ rec.commitNo = commits) =>
         chatMessages = <<>>

C15_Witness ==
  /\ last.kind = "DELETE" /\ IsSuccess(last) /\ last.commitNo = commits
  /\ last.effect.removed # {}

(* C16: every created message gets an id greater than every id assigned   *)
(* before it: the stored ids are distinct and below the sequence, a new   *)
(* row takes an id not below the sequence, and the sequence never goes    *)
(* back.                                                                  *)
C16_IdsMonotone ==
  /\ [](/\ \A i \in DOMAIN chatMessages : chatMessages[i].id < currentChatId
        /\ \A i, j \in DOMAIN chatMessages :
             i < j => chatMessages[i].id < chatMessages[j].id)
  /\ [][/\ currentChatId' >= currentChatId
        /\ \A i \in DOMAIN chatMessages' :
             chatMessages'[i].id \notin Ids(chatMessages) =>
               /\ chatMessages'[i].id >= currentChatId
               /\ chatMessages'[i].id < currentChatId']_vars

C16_Witness ==
  /\ Len(chatMessages) = 1 /\ chatMessages[1].id > 1
  /\ last.kind = "POST" /\ IsSuccess(last)

(* C17: every connection is sent the events of the mutations in the order *)
(* in which the mutations were applied to the store.                      *)
C17_BroadcastInCommitOrder ==
  \A c \in Conns : \A i, j \in DOMAIN inbox[c] :
    (i < j /\ inbox[c][i].commitNo > 0 /\ inbox[c][j].commitNo > 0) =>
      inbox[c][i].commitNo < inbox[c][j].commitNo

(* C18: a connection is in the registry if and only if it is open.        *)
C18_RegisteredIffOpen ==
  \A c \in Conns : c \in clients <=> readyState[c] = "OPEN"

(* C19: a close event arms the reconnect timer with the fixed delay, a    *)
(* new connection attempt starts only when that timer has run out, and,   *)
(* if the server accepts connections from some time on, a client whose    *)
(* channel is closed is eventually open again.                            *)
C19_ClientReconnects ==
  /\ [][(client.closeEvent /\ ~client'.closeEvent) =>
          (client'.timers > 0 /\ client'.timer = ReconnectDelay)]_vars
  /\ [][(client.readyState = "CLOSED" /\ client'.readyState = "CONNECTING") =>
          (client.timers > 0 /\ client.timer = 0)]_vars
  /\ (<>[]accepting) =>
       [](client.readyState = "CLOSED" => <>(client.readyState = "OPEN"))

C19_Witness ==
  /\ client.readyState = "OPEN" /\ client.attempts >= MaxAttempts

(* C20: a ping frame is answered with one pong on the same connection and *)
(* nothing else; any other frame is answered with nothing; neither        *)
(* changes the store, the cache, the queue or any connection's state.     *)
C20_PingPong ==
  [][received' # received =>
       \E c \in Conns :
         /\ \A k \in Conns \ {c} :
              received'[k] = received[k] /\ inbox'[k] = inbox[k]
         /\ IF received'[c].ping = received[c].ping + 1
            THEN /\ Len(inbox'[c]) = Len(inbox[c]) + 1
                 /\ SubSeq(inbox'[c], 1, Len(inbox[c])) = inbox[c]
                 /\ inbox'[c][Len(inbox'[c])].type = "pong"
            ELSE inbox'[c] = inbox[c]
         /\ UNCHANGED << storeVars, cache, notificationQueue, readyState,
                         clients, reqs, last >>]_vars

C20_Witness ==
  \E c \in Conns :
    /\ received[c].ping = 1 /\ readyState[c] = "OPEN"
    /\ inbox[c][Len(inbox[c])].type = "pong"
    /\ chatMessages # <<>>

(* C21: a valid authenticated post whose task publish fails is still      *)
(* broadcast and answered 201.                                            *)
C21_PostIgnoresQueue ==
  \A rec \in Known :
    (rec.kind = "POST" /\ rec.pc = "done" /\ Did(rec, "publish_error")) =>
      rec.status = 201 /\ Broadcasted(rec)

(* the key holds a value that has not expired *)
Cached == cache.present /\ now < cache.exp

(* C25: a list request that finds the key is answered with the cached     *)
(* value and does not read the store; one that does not find it reads the *)
(* store, sets the key to that list with the 30 second ttl and answers    *)
(* with it; the empty list is cached and served like any other.           *)
C25_ReadThrough ==
  [][\A r \in Reqs :
       (reqs[r].kind = "GET" /\ reqs'[r] # reqs[r]) =>
         /\ (reqs[r].pc = "redisGet" /\ Cached) =>
              /\ last'.id = reqs[r].id /\ ~Did(last', "read")
              /\ last'.status = 200 => last'.body = cache.value
              /\ UNCHANGED << cache, storeVars >>
         /\ (reqs[r].pc = "redisGet" /\ ~Cached) =>
              \/ reqs'[r].pc = "getChatMessages"
              \/ last'.id = reqs[r].id /\ last'.status = 500
         /\ (reqs[r].pc = "getChatMessages" /\ reqs'[r].pc = "setEx") =>
              /\ reqs'[r].messages \in getChatMessages(chatMessages)
              /\ UNCHANGED << cache, storeVars >>
         /\ (reqs[r].pc = "setEx" /\ last'.status = 200) =>
              /\ last'.id = reqs[r].id
              /\ last'.body = JSONstringify(reqs[r].messages)
              /\ cache'.present /\ cache'.value = last'.body
              /\ cache'.exp = now + CacheTtl
              /\ UNCHANGED storeVars]_vars

C25_Witness ==
  /\ last.kind = "GET" /\ Did(last, "hit") /\ last.status = 200
  /\ JSONparse(last.body) = <<>>
  /\ now > 0

(* C29: the cached list is never older than the ttl: a message that has   *)
(* been in the store for more than 30 seconds is in every cached list.    *)
C29_CacheWithinTtl ==
  Cached =>
    \A i \in DOMAIN chatMessages :
      now - getTime(chatMessages[i].timestamp) > CacheTtl =>
        chatMessages[i].id \in Ids(JSONparse(cache.value))

(* C22: of the sockets the page created at most one is connecting or open: *)
(* a socket and a reconnect timer never exist together, and there is never *)
(* more than one of either.                                                *)
C22_OneSocket ==
  /\ client.sockets + client.timers <= 1
  /\ client.sockets = 1 <=> client.readyState \in {"CONNECTING", "OPEN"}

C22_Witness ==
  /\ client.readyState = "CONNECTING" /\ client.sockets = 1
  /\ client.attempts >= MaxAttempts /\ client.mounted

(* C30: once the page is unmounted none of its sockets is connecting or   *)
(* open.                                                                  *)
C30_NoSocketAfterUnmount ==
  ~client.mounted => client.readyState \notin {"CONNECTING", "OPEN"}

(* C23: every event a mutation endpoint sends is one the client's handler  *)
(* answers with an invalidation of the list query, and the other frames of *)
(* the server (connected, pong) are answered with none.                    *)
C23_EventsInvalidate ==
  \A c \in Conns : \A i \in DOMAIN inbox[c] :
    /\ inbox[c][i].type \in EventTypes
    /\ Invalidates(inbox[c][i].type) <=> inbox[c][i].by # 0

C23_Witness ==
  \E c \in Conns : \E i, j, k \in DOMAIN inbox[c] :
    /\ inbox[c][i].type = "connected" /\ inbox[c][j].type = "pong"
    /\ inbox[c][k].type = "user_messages_deleted"

(* the type on the wire of the event of each kind of mutation *)
EventOf(kind) ==
  CASE kind = "POST" -> "new_message"
    [] kind = "DELETE" -> "chat_cleared"
    [] kind = "DELETE_USER" -> "user_messages_deleted"

C27_GaugeCountsConnections ==
  /\ activeConnections =
       Cardinality({c \in Conns : readyState[c] \in {"OPEN", "CLOSING"}})
  /\ activeConnections = Cardinality(clients)
  /\ activeConnections >= 0

C27_Witness ==
  /\ activeConnections = 1
  /\ \E c \in Conns :
       /\ readyState[c] = "CLOSED"
       /\ \E i \in DOMAIN inbox[c] : ~inbox[c][i].ok

(* C28: a step that adds a message to the store is the store write of a   *)
(* POST and the message's userId is that request's user, whatever the     *)
(* body holds; the store write of a DELETE /api/chat/user removes the     *)
(* messages of its user and leaves every other message in the store.      *)
C28_AuthorIsCaller ==
  [][/\ \A i \in DOMAIN chatMessages' :
          chatMessages'[i].id \notin Ids(chatMessages) =>
            \E r \in Reqs :
              /\ reqs[r].kind = "POST" /\ reqs[r].pc = "createChatMessage"
              /\ reqs'[r].message = chatMessages'[i]
              /\ chatMessages'[i].userId = reqs[r].user
     /\ \A r \in Reqs :
          (reqs[r].kind = "DELETE_USER" /\ reqs[r].pc = "deleteUserChatMessages"
             /\ last'.id = reqs[r].id) =>
            \A i \in DOMAIN chatMessages :
              chatMessages[i].id \in Ids(chatMessages') <=>
                (chatMessages[i].userId # reqs[r].user
                   \/ Did(last', "store_error"))]_vars

C28_Witness ==
  /\ last.kind = "DELETE_USER" /\ IsSuccess(last) /\ last.effect.removed # {}
  /\ \E i \in DOMAIN chatMessages :
       /\ chatMessages[i].userId # last.user
       /\ \E r \in Reqs :
            /\ reqs[r].kind = "POST" /\ reqs[r].message = chatMessages[i]
            /\ reqs[r].content.userId = last.user

(* the view of the page is a list the store returns now *)
Converged ==
  \E list \in getChatMessages(chatMessages) :
    client.view = JSONstringify(list)

====
